---- MODULE Spec2Model ----
(***************************************************************************)
(* BudgetBakers Wallet integration: the REST client (api.py), the refresh  *)
(* cycle (coordinator.py), the entry set-up (__init__.py), the config     *)
(* flow (config_flow.py) and the spent-in-PLN sensor (sensor.py).          *)
(*                                                                         *)
(* Python values are represented as follows.  An Optional value is a       *)
(* sequence of length 0 (None) or 1.  Money is counted in whole cents.     *)
(* Instants are whole seconds; the epoch is the instant the model starts.  *)
(*                                                                         *)
(* coordinator.py:46 calls get_transactions_all_active_accounts(days=30);  *)
(* api.py defines the aggregator as                                        *)
(* get_last_week_transactions_all_active_accounts (api.py:60-87).  The     *)
(* model takes the call to run that body.                                  *)
(***************************************************************************)
EXTENDS Integers, Sequences, FiniteSets, TLC

\* ------------------------------------------------------------------ bounds
\* Last instant the model's clock reaches.
MaxClock == 1
\* Items (accounts and records together) the upstream serves over one fetch.
MaxItems == 2
\* Requests the upstream lets one fetch come to.
MaxRequests == 3
\* Requests the upstream lets one call of the client on its own come to.
MaxWalkRequests == 3
\* Accounts, or records, the upstream returns to one computation of the fetch.
MaxCallLen == 3

\* ------------------------------------------------------- program constants
\* days=30 in seconds: the window the coordinator asks the aggregator for.
ThirtyDays == 2592000
\* timedelta(days=7) in seconds: the reporting window of the coordinator.
SevenDays == 604800
\* The window of the aggregator, timedelta(days=7), in seconds.
FetchWindow == 604800

None == <<>>
Some(v) == <<v>>

\* ------------------------------------------------------------ upstream data
\* Account objects of the accounts collection.  archived is "absent", a
\* JSON boolean, "null" or a non-empty string; id is absent (hasId = FALSE)
\* or a string.
Account(hasId, id, archived) == [hasId |-> hasId, id |-> id, archived |-> archived]
AccountA == Account(TRUE, "A", "false")
AccountBArchived == Account(TRUE, "B", "true")
AccountNoId == Account(FALSE, "", "absent")
AccountShapes == { AccountA, AccountBArchived, AccountNoId }

\* recordDate of a record: a string with a UTC designator ("aware"), a string
\* without time zone ("naive"), a string that is no ISO timestamp
\* ("unparseable"), a JSON number ("nonstring"), JSON null ("null") or no
\* key at all ("missing").
RecDate(k, t) == [k |-> k, t |-> t]
\* baseAmount: absent, or an object with currencyCode and value; value is a
\* JSON number of cents ("num"), a JSON boolean ("bool", 1 for true and 0
\* for false), a JSON string ("nonnum") or absent.
Amount(present, cur, vk, v) == [present |-> present, currencyCode |-> cur, vk |-> vk, value |-> v]
Record(d, ty, amt) == [recordDate |-> d, recordType |-> ty, baseAmount |-> amt]
RecordWeekOld ==
    Record(RecDate("aware", 0 - SevenDays), "expense", Amount(TRUE, "PLN", "num", -4250))
RecordNaive == Record(RecDate("naive", 0), "expense", Amount(TRUE, "PLN", "num", 500))
RecordShapes == { RecordWeekOld, RecordNaive }

\* The nextOffset member of a page: absent, JSON null, or an integer.
NextOffsets ==
    { [k |-> "absent", v |-> 0], [k |-> "null", v |-> 0] }
    \cup { [k |-> "int", v |-> n] : n \in {1} }

\* Sequences over S of length at most n.
RECURSIVE SeqUpTo(_, _)
SeqUpTo(S, n) ==
    IF n = 0 THEN { <<>> }
    ELSE LET shorter == SeqUpTo(S, n - 1)
         IN  shorter \cup { Append(s, x) : s \in { q \in shorter : Len(q) = n - 1 }, x \in S }

\* A JSON-object page: the items key may be missing.
Page(hasItems, items, next) == [hasItems |-> hasItems, items |-> items, next |-> next]
NoPage == Page(FALSE, <<>>, [k |-> "absent", v |-> 0])

\* ------------------------------------------------------- HTTP responses
\* Retry-After header: absent, the empty string, a string of ASCII decimal
\* digits (value v), a string with a non-digit character ("abc", "-5", an
\* HTTP date), or a string of digit characters that int() does not accept
\* (U+00B2 SUPERSCRIPT TWO).
RetryAfterHeaders ==
    { [k |-> "absent", v |-> 0], [k |-> "empty", v |-> 0], [k |-> "nondigit", v |-> 0],
      [k |-> "digit_nondecimal", v |-> 0] }
    \cup { [k |-> "decimal", v |-> n] : n \in 0..1 }
NoHeader == [k |-> "absent", v |-> 0]

\* What the transport delivers for one GET.  net: the connection failed, the
\* 30 s deadline passed before the response head arrived, or a response head
\* arrived.  body (read only for a status below 400): a JSON object, another
\* JSON value, text that is no JSON, a content type other than JSON, the
\* deadline passing or the connection breaking while the body is read.
Response(net, status, header, bodyKind, page) ==
    [net |-> net, status |-> status, retryAfter |-> header, bodyKind |-> bodyKind, page |-> page]
FailureResponses ==
    { Response("conn_error", 0, NoHeader, "none", NoPage),
      Response("timeout", 0, NoHeader, "none", NoPage),
      Response("response", 401, NoHeader, "none", NoPage),
      Response("response", 500, NoHeader, "none", NoPage) }
    \cup { Response("response", 429, h, "none", NoPage) : h \in RetryAfterHeaders }
    \cup { Response("response", s, NoHeader, b, NoPage) :
             s \in {200, 300},
             b \in {"not_object", "invalid_json", "wrong_content_type", "timeout", "conn_error"} }
ObjectResponses(pages) ==
    { Response("response", 200, NoHeader, "object", p) : p \in pages }

\* ------------------------------------------------------------ api.py
\* The exception classes a request can end in, each with its base classes.
\* ContentTypeError is a ClientResponseError; json.JSONDecodeError and the
\* error of int() are ValueErrors.
Bases(exc) ==
    CASE exc = "BudgetBakersAuthError" -> {"BudgetBakersAuthError", "BudgetBakersApiError"}
      [] exc = "BudgetBakersRateLimitError" -> {"BudgetBakersRateLimitError", "BudgetBakersApiError"}
      [] exc = "ClientResponseError" -> {"ClientResponseError", "ClientError"}
      [] OTHER -> {exc}
IsInstance(exc, cls) == cls \in Bases(exc)

\* What a call returns: a raised exception (exc # "") or a value.
Raised(exc, retry_after, counted) ==
    [exc |-> exc, retry_after |-> retry_after, page |-> NoPage, counted |-> counted]
Returned(page) == [exc |-> "", retry_after |-> None, page |-> page, counted |-> TRUE]

\* str.isdigit() of a header value that is present and not empty.
IsDigit(h) == h.k \in {"decimal", "digit_nondecimal"}
\* `retry_after_raw and retry_after_raw.isdigit()`.
HeaderIsNumber(h) == h.k \notin {"absent", "empty"} /\ IsDigit(h)

\* The body of the `async with` block of _request_json: the counter is
\* incremented once the response head is there, then the status is looked
\* at, then the body is read and decoded.
RequestBlock(resp) ==
    IF resp.net = "conn_error" THEN Raised("ClientError", None, FALSE)
    ELSE IF resp.net = "timeout" THEN Raised("TimeoutError", None, FALSE)
    ELSE IF resp.status = 401 THEN Raised("BudgetBakersAuthError", None, TRUE)
    ELSE IF resp.status = 429 THEN
        IF HeaderIsNumber(resp.retryAfter)
        THEN IF resp.retryAfter.k = "decimal"
             THEN Raised("BudgetBakersRateLimitError", Some(resp.retryAfter.v), TRUE)
             ELSE Raised("ValueError", None, TRUE)
        ELSE Raised("BudgetBakersRateLimitError", None, TRUE)
    ELSE IF resp.status >= 400 THEN Raised("ClientResponseError", None, TRUE)
    ELSE CASE resp.bodyKind = "wrong_content_type" -> Raised("ClientResponseError", None, TRUE)
           [] resp.bodyKind = "invalid_json" -> Raised("ValueError", None, TRUE)
           [] resp.bodyKind = "timeout" -> Raised("TimeoutError", None, TRUE)
           [] resp.bodyKind = "conn_error" -> Raised("ClientError", None, TRUE)
           [] resp.bodyKind = "not_object" -> Raised("BudgetBakersApiError", None, TRUE)
           [] OTHER -> Returned(resp.page)

\* The except clauses of _request_json, in their order.
TranslateApiFirst(r) ==
    IF r.exc = "" THEN r
    ELSE IF \E c \in {"BudgetBakersApiError", "ClientResponseError", "ClientError", "TimeoutError"} :
                IsInstance(r.exc, c)
         THEN Raised("BudgetBakersApiError", None, r.counted)
         ELSE r
Translate(r) ==
    IF r.exc = "" THEN r
    ELSE IF IsInstance(r.exc, "BudgetBakersApiError") THEN r
    ELSE IF IsInstance(r.exc, "ClientResponseError") THEN Raised("BudgetBakersApiError", None, r.counted)
    ELSE IF IsInstance(r.exc, "ClientError") THEN Raised("BudgetBakersApiError", None, r.counted)
    ELSE IF IsInstance(r.exc, "TimeoutError") THEN Raised("BudgetBakersApiError", None, r.counted)
    ELSE r

request_json(resp) == Translate(RequestBlock(resp))

\* payload.get("accounts", []) / payload.get("records", []).
PageItems(page) == IF page.hasItems THEN page.items ELSE <<>>
\* payload.get("nextOffset"): None when the key is missing or null.
PageNextOffset(page) == IF page.next.k = "int" THEN Some(page.next.v) ELSE None
\* `if next_offset is None: break`.
LastPageIfFalsy(page) == PageNextOffset(page) = None \/ PageNextOffset(page) = Some(0)
LastPage(page) == PageNextOffset(page) = None

\* One turn of the `while True` loop of _fetch_accounts, from the payload of
\* its request on: extend, then break or take the next offset.
fetch_accounts_loop(offset, accounts, page) ==
    LET all == accounts \o PageItems(page)
    IN  IF LastPage(page) THEN [done |-> TRUE, offset |-> offset, items |-> all]
        ELSE [done |-> FALSE, offset |-> PageNextOffset(page)[1], items |-> all]
\* The same turn of the loop of _fetch_records_for_account.
fetch_records_loop(offset, records, page) ==
    LET all == records \o PageItems(page)
    IN  IF LastPage(page) THEN [done |-> TRUE, offset |-> offset, items |-> all]
        ELSE [done |-> FALSE, offset |-> PageNextOffset(page)[1], items |-> all]

\* [acc for acc in accounts if not bool(acc.get("archived", False))]
IsActiveStrict(acc) == acc.archived = "false"
IsActive(acc) == acc.archived \notin {"true", "nonempty_string"}
\* acc.get("id") is truthy.
HasId(acc) == acc.hasId /\ acc.id # ""

RECURSIVE SelectSeqIds(_)
SelectSeqIds(accounts) ==
    IF accounts = <<>> THEN <<>>
    ELSE LET a == Head(accounts)
             rest == SelectSeqIds(Tail(accounts))
         IN  IF IsActive(a) /\ HasId(a) THEN <<a.id>> \o rest ELSE rest
ActiveAccountIds(accounts) == SelectSeqIds(accounts)

\* all_transactions.sort(key=lambda item: item.get("recordDate", ""), reverse=True)
\* The key of a record without recordDate is the empty string.
KeyIsStr(rec) == rec.recordDate.k \notin {"nonstring", "null"}
\* Rank of the kinds of string keys: "" < an ISO timestamp beginning with a
\* digit < a text beginning with a letter.
StrClass(d) == CASE d.k = "missing" -> 0 [] d.k = "unparseable" -> 2 [] OTHER -> 1
\* a < b for two keys of one type.  Two timestamps of the same second differ
\* only by the trailing designator, which makes the naive one a prefix.
KeyLess(a, b) ==
    IF a.k = "nonstring" THEN a.t < b.t
    ELSE \/ StrClass(a) < StrClass(b)
         \/ /\ StrClass(a) = 1 /\ StrClass(b) = 1
            /\ \/ a.t < b.t
               \/ a.t = b.t /\ a.k = "naive" /\ b.k = "aware"
\* Comparing a str key with a number key, or None with anything, raises
\* TypeError; sorting compares every element with another one.
SortRaises(txs) ==
    \E i, j \in 1..Len(txs) :
        /\ i # j
        /\ \/ KeyIsStr(txs[i]) # KeyIsStr(txs[j])
           \/ txs[i].recordDate.k = "null"

RECURSIVE InsertDescUnstable(_, _)
InsertDescUnstable(sorted, x) ==
    IF sorted = <<>> THEN <<x>>
    ELSE IF ~KeyLess(x.recordDate, Head(sorted).recordDate)
         THEN <<x>> \o sorted
         ELSE <<Head(sorted)>> \o InsertDescUnstable(Tail(sorted), x)
RECURSIVE InsertDesc(_, _)
InsertDesc(sorted, x) ==
    IF sorted = <<>> THEN <<x>>
    ELSE IF KeyLess(Head(sorted).recordDate, x.recordDate)
         THEN <<x>> \o sorted
         ELSE <<Head(sorted)>> \o InsertDesc(Tail(sorted), x)
RECURSIVE SortDesc(_)
SortDesc(txs) ==
    IF txs = <<>> THEN <<>>
    ELSE InsertDesc(SortDesc(SubSeq(txs, 1, Len(txs) - 1)), txs[Len(txs)])

WalletFetchResult(txs, ids, made) ==
    [transactions |-> txs, account_count |-> Len(ids), active_account_ids |-> ids,
     requests_made |-> made]

\* ------------------------------------------------------- coordinator.py
\* _is_record_on_or_after: "false", "true", or "TypeError" when a timestamp
\* without time zone is compared with the time-zone-aware threshold.
is_record_after(record, threshold) ==
    LET d == record.recordDate
    IN  IF d.k \in {"missing", "nonstring", "null"} THEN "false"
        ELSE IF d.k = "unparseable" THEN "false"
        ELSE IF d.k = "naive" THEN "TypeError"
        ELSE IF d.t > threshold THEN "true" ELSE "false"
is_record_on_or_after(record, threshold) ==
    LET d == record.recordDate
    IN  IF d.k \in {"missing", "nonstring", "null"} THEN "false"
        ELSE IF d.k = "unparseable" THEN "false"
        ELSE IF d.k = "naive" THEN "TypeError"
        ELSE IF d.t >= threshold THEN "true" ELSE "false"

FilterRaises(txs, threshold) ==
    \E i \in 1..Len(txs) : is_record_on_or_after(txs[i], threshold) = "TypeError"
RECURSIVE FilterOnOrAfter(_, _)
FilterOnOrAfter(txs, threshold) ==
    IF txs = <<>> THEN <<>>
    ELSE LET rest == FilterOnOrAfter(Tail(txs), threshold)
         IN  IF is_record_on_or_after(Head(txs), threshold) = "true"
             THEN <<Head(txs)>> \o rest ELSE rest

Abs(n) == IF n < 0 THEN -n ELSE n
\* isinstance(value, (int, float)): bool is a subclass of int.
IsIntOrFloat(b) == b.vk \in {"num", "bool"}
\* abs(float(value)) in cents: float(True) is 1.0.
AbsFloat(b) == IF b.vk = "bool" THEN 100 * b.value ELSE Abs(b.value)
\* _calculate_transaction_sum_30_days, in cents.
RECURSIVE calculate_transaction_sum_30_days(_)
calculate_transaction_sum_30_days(txs) ==
    IF txs = <<>> THEN 0
    ELSE LET b == Head(txs).baseAmount
             rest == calculate_transaction_sum_30_days(Tail(txs))
         IN  IF ~b.present \/ b.currencyCode # "PLN" THEN rest
             ELSE IF ~IsIntOrFloat(b) THEN rest
             ELSE AbsFloat(b) + rest

\* The dict returned by _async_update_data.
SnapshotStamp(now_utc, commit_time) == now_utc
SnapshotLastError == None
Snapshot(result, now_utc, commit_time) ==
    LET last7 == FilterOnOrAfter(result.transactions, now_utc - SevenDays)
    IN  [transactions |-> last7,
         total_transactions |-> Len(last7),
         transaction_sum_30_days |-> calculate_transaction_sum_30_days(result.transactions),
         account_count |-> result.account_count,
         active_account_ids |-> result.active_account_ids,
         requests_made |-> result.requests_made,
         updated_at |-> SnapshotStamp(now_utc, commit_time),
         last_error |-> SnapshotLastError]

\* ------------------------------------------------------------ sensor.py
\* _calculate_total_spent_pln, in cents.
RECURSIVE calculate_total_spent_pln(_)
calculate_total_spent_pln(txs) ==
    IF txs = <<>> THEN 0
    ELSE LET t == Head(txs)
             b == t.baseAmount
             rest == calculate_total_spent_pln(Tail(txs))
         IN  IF t.recordType # "expense" THEN rest
             ELSE IF ~b.present \/ b.currencyCode # "PLN" THEN rest
             ELSE IF ~IsIntOrFloat(b) THEN rest
             ELSE AbsFloat(b) + rest
\* BudgetBakersSpentPlnSensor.native_value: the sum over
\* coordinator.data's transactions, rounded to whole cents.
SpentPlnNativeValue(snap) == calculate_total_spent_pln(snap.transactions)

\* ------------------------------------------------------------------ state
VARIABLES
    clock,          \* the wall clock, in seconds
    entryState,     \* the config entry: not_loaded, setup_in_progress, loaded, setup_retry, setup_error
    hassData,       \* the coordinator is stored in hass.data[DOMAIN][entry_id]
    sensors,        \* the sensor platform is set up
    data,           \* coordinator.data: None or the committed Snapshot
    invocations,    \* invocations of _async_update_data in progress
    run,            \* the frame of the invocation in progress
    requests_made,  \* the client's _requests_made
    trigger,        \* what became of the latest tick or manual trigger
    last,           \* how the latest finished refresh ended
    committed,      \* the dict built by the latest invocation whose try block ran to its end
    walk,           \* a call of the client on its own: the requests it made, and its end
    call,           \* a computation of the fetch on given upstream data, and its result
    entryData,      \* the token in the config entry's data: None while there is no entry
    flow            \* the config flow in progress
vars == <<clock, entryState, hassData, sensors, data, invocations, run, requests_made,
          trigger, last, committed, walk, call, entryData, flow>>

\* A GET the client issues: target 0 is the accounts collection, target i
\* the records of the i-th active account, scoped to [start, end).
Request(target, start, end) == [target |-> target, start |-> start, end |-> end]

\* The frame of _async_update_data together with the frames of the client
\* calls it is suspended in.  req_exc and req_retry_after are what the
\* latest request ended in, attempts the requests that got an outcome, log
\* the requests issued.
IdleFrame ==
    [pc |-> "idle", now_utc |-> 0, api_now |-> 0, offset |-> 0, accounts |-> <<>>,
     active_account_ids |-> <<>>, idx |-> 0, records |-> <<>>, all_transactions |-> <<>>,
     exc |-> "", retry_after |-> None, header |-> NoHeader, caught_at |-> 0, wake_at |-> 0,
     req_exc |-> "", req_retry_after |-> None, attempts |-> 0, log |-> <<>>]
\* How a refresh ended: the exception signalled to the framework (outcome),
\* the exception that ended the try block (exc) with its retry_after, the
\* Retry-After header of the last response, and the instants it started,
\* the exception was caught and the refresh ended; what its latest request
\* ended in, and the requests that got an outcome.
NoLast == [outcome |-> "none", exc |-> "", retry_after |-> None, header |-> NoHeader,
           started_at |-> 0, caught_at |-> 0, ended_at |-> 0, slept |-> FALSE,
           req_exc |-> "", req_retry_after |-> None, attempts |-> 0]

\* A call of _fetch_accounts, _fetch_records_for_account or validate_token:
\* log holds, per request, the offset asked for, the response and what
\* _request_json made of it; status is "none", "running", "returned" or "raised".
NoWalk == [op |-> "none", status |-> "none", offset |-> 0, items |-> <<>>, log |-> <<>>]

NoCall == [op |-> "none"]
\* How the latest submission of a flow form ended: the form (kind) and the
\* input, the requests validate_token made and the response it got, the
\* exception it raised, the error the form shows again (errors), the result
\* that closed the flow, and the stored token before and after.
NoSubmit ==
    [kind |-> "none", input |-> [core |-> "", padded |-> FALSE], requests |-> 0,
     resp |-> Response("none", 0, NoHeader, "none", NoPage), exc |-> "", errors |-> "",
     result |-> "", before |-> None, after |-> None, reloaded |-> FALSE]
\* No flow is open.  step is "none", "user" or "reauth_confirm" (the form is
\* shown), or "user_validating" or "reauth_validating" (the handler awaits
\* validate_token for token).
NoFlow == [step |-> "none", token |-> "", submit |-> NoSubmit]

Init ==
    /\ clock = 0
    /\ entryState = "not_loaded"
    /\ hassData = FALSE
    /\ sensors = FALSE
    /\ data = None
    /\ invocations = 0
    /\ run = IdleFrame
    /\ requests_made = 0
    /\ trigger = "none"
    /\ last = NoLast
    /\ committed = None
    /\ walk = NoWalk
    /\ call = NoCall
    /\ entryData = Some("t0")
    /\ flow = NoFlow

\* ---------------------------------------------------------------- upstream
\* The pages the upstream may answer a request with.  Over one fetch it
\* serves at most MaxItems items, and it ends a walk early enough for the
\* fetch to come to at most MaxRequests requests: `walks` is the number of
\* walks of the records collection still to come after the page.
Fits(page, walks) ==
    requests_made + 1 + (IF page.next.k = "int" THEN 1 ELSE 0) + walks <= MaxRequests
ItemsLeft == MaxItems - Len(run.accounts) - Len(run.all_transactions) - Len(run.records)
Pages(shapes) ==
    { Page(TRUE, items, n) : items \in SeqUpTo(shapes, ItemsLeft), n \in NextOffsets }
    \cup { Page(FALSE, <<>>, n) : n \in NextOffsets }
AccountsResponses ==
    FailureResponses
    \cup ObjectResponses({ p \in Pages(AccountShapes) :
            Fits(p, Len(ActiveAccountIds(run.accounts \o PageItems(p)))) })
RecordsResponses ==
    FailureResponses
    \cup ObjectResponses({ p \in Pages(RecordShapes) :
            Fits(p, Len(run.active_account_ids) - run.idx) })

\* ------------------------------------------- the steps of one invocation
\* What a step of the invocation ends in: it is suspended again ("await"),
\* it returns a value, or it raises.
Await(f) == [k |-> "await", frame |-> f, value |-> None, exc |-> "", retry_after |-> None]
Return(v) == [k |-> "return", frame |-> IdleFrame, value |-> Some(v), exc |-> "", retry_after |-> None]
Raise(exc, ra) == [k |-> "raise", frame |-> IdleFrame, value |-> None, exc |-> exc, retry_after |-> ra]

\* _async_update_data up to its first suspension: it reads the clock, the
\* aggregator resets the counter and _fetch_accounts issues its first request.
StartFrame ==
    [IdleFrame EXCEPT !.pc = "accounts", !.now_utc = clock, !.log = <<Request(0, 0, 0)>>]

\* The end of the aggregator: sort, build the WalletFetchResult.
AggregatorReturn(f, txs, made) ==
    IF SortRaises(txs) THEN Raise("TypeError", None)
    ELSE Return(WalletFetchResult(SortDesc(txs), f.active_account_ids, made))

\* The records request of the aggregator for its i-th active account:
\* start_utc = now_utc - timedelta(days=7), end_utc = now_utc.
RecordsRequest(f, i) == Request(i, f.api_now - FetchWindow, f.api_now)

\* The aggregator resumed in _fetch_accounts with the outcome r of the
\* request, and what follows without suspension.
fetch_accounts_resume_translate(f, r, made) ==
    IF r.exc # "" THEN Raise("BudgetBakersApiError", None)
    ELSE LET turn == fetch_accounts_loop(f.offset, f.accounts, r.page)
         IN  IF ~turn.done
             THEN Await([f EXCEPT !.accounts = turn.items, !.offset = turn.offset,
                                  !.log = Append(f.log, Request(0, 0, 0))])
             ELSE LET ids == ActiveAccountIds(turn.items)
                      g == [f EXCEPT !.accounts = turn.items, !.active_account_ids = ids,
                                     !.api_now = clock, !.offset = 0]
                  IN  IF ids = <<>> THEN AggregatorReturn(g, <<>>, made)
                      ELSE Await([g EXCEPT !.pc = "records", !.idx = 1,
                                           !.log = Append(f.log, RecordsRequest(g, 1))])
fetch_accounts_resume_fanout(f, r, made) ==
    IF r.exc # "" THEN Raise(r.exc, r.retry_after)
    ELSE LET turn == fetch_accounts_loop(f.offset, f.accounts, r.page)
         IN  IF ~turn.done
             THEN Await([f EXCEPT !.accounts = turn.items, !.offset = turn.offset,
                                  !.log = Append(f.log, Request(0, 0, 0))])
             ELSE LET ids == ActiveAccountIds(turn.items)
                      g == [f EXCEPT !.accounts = turn.items, !.active_account_ids = ids,
                                     !.api_now = clock, !.offset = 0]
                  IN  IF ids = <<>> THEN AggregatorReturn(g, <<>>, made)
                      ELSE Await([g EXCEPT !.pc = "records", !.idx = 1,
                                           !.log = f.log \o [i \in 1..Len(ids) |->
                                                               RecordsRequest(g, i)]])
fetch_accounts_resume(f, r, made) ==
    IF r.exc # "" THEN Raise(r.exc, r.retry_after)
    ELSE LET turn == fetch_accounts_loop(f.offset, f.accounts, r.page)
         IN  IF ~turn.done
             THEN Await([f EXCEPT !.accounts = turn.items, !.offset = turn.offset,
                                  !.log = Append(f.log, Request(0, 0, 0))])
             ELSE LET ids == ActiveAccountIds(turn.items)
                      g == [f EXCEPT !.accounts = turn.items, !.active_account_ids = ids,
                                     !.api_now = clock, !.offset = 0]
                  IN  IF ids = <<>> THEN AggregatorReturn(g, <<>>, made)
                      ELSE Await([g EXCEPT !.pc = "records", !.idx = 1,
                                           !.log = Append(f.log, RecordsRequest(g, 1))])

\* The aggregator resumed in _fetch_records_for_account.
fetch_records_resume_partial(f, r, made) ==
    IF r.exc # "" THEN AggregatorReturn(f, f.all_transactions \o f.records, made)
    ELSE LET turn == fetch_records_loop(f.offset, f.records, r.page)
         IN  IF ~turn.done
             THEN Await([f EXCEPT !.records = turn.items, !.offset = turn.offset,
                                  !.log = Append(f.log, RecordsRequest(f, f.idx))])
             ELSE LET all == f.all_transactions \o turn.items
                  IN  IF f.idx < Len(f.active_account_ids)
                      THEN Await([f EXCEPT !.all_transactions = all, !.records = <<>>,
                                           !.offset = 0, !.idx = f.idx + 1,
                                           !.log = Append(f.log, RecordsRequest(f, f.idx + 1))])
                      ELSE AggregatorReturn(f, all, made)
fetch_records_resume(f, r, made) ==
    IF r.exc # "" THEN Raise(r.exc, r.retry_after)
    ELSE LET turn == fetch_records_loop(f.offset, f.records, r.page)
         IN  IF ~turn.done
             THEN Await([f EXCEPT !.records = turn.items, !.offset = turn.offset,
                                  !.log = Append(f.log, RecordsRequest(f, f.idx))])
             ELSE LET all == f.all_transactions \o turn.items
                  IN  IF f.idx < Len(f.active_account_ids)
                      THEN Await([f EXCEPT !.all_transactions = all, !.records = <<>>,
                                           !.offset = 0, !.idx = f.idx + 1,
                                           !.log = Append(f.log, RecordsRequest(f, f.idx + 1))])
                      ELSE AggregatorReturn(f, all, made)

\* The except clauses of _async_update_data, in their order.
ExceptClausesApiFirst(f, exc, ra) ==
    IF IsInstance(exc, "BudgetBakersApiError") THEN Raise("UpdateFailed", None)
    ELSE Raise(exc, None)
ExceptClausesSwallow(f, exc, ra) ==
    IF IsInstance(exc, "BudgetBakersAuthError") THEN Raise("ConfigEntryAuthFailed", None)
    ELSE IF IsInstance(exc, "BudgetBakersApiError")
         THEN Return([Snapshot(WalletFetchResult(<<>>, <<>>, 0), f.now_utc, clock)
                        EXCEPT !.last_error = Some("API error")])
    ELSE Raise(exc, None)
ExceptClausesNoSleep(f, exc, ra) ==
    IF IsInstance(exc, "BudgetBakersAuthError") THEN Raise("ConfigEntryAuthFailed", None)
    ELSE IF IsInstance(exc, "BudgetBakersApiError") THEN Raise("UpdateFailed", None)
    ELSE Raise(exc, None)
ExceptClauses(f, exc, ra) ==
    IF IsInstance(exc, "BudgetBakersAuthError") THEN Raise("ConfigEntryAuthFailed", None)
    ELSE IF IsInstance(exc, "BudgetBakersRateLimitError")
         THEN IF ra # None /\ ra[1] > 0
              THEN Await([f EXCEPT !.pc = "sleeping", !.exc = exc, !.retry_after = ra,
                                   !.caught_at = clock, !.wake_at = clock + ra[1]])
              ELSE Raise("UpdateFailed", None)
    ELSE IF IsInstance(exc, "BudgetBakersApiError") THEN Raise("UpdateFailed", None)
    ELSE Raise(exc, None)

\* _async_update_data resumed with what the aggregator's step ended in.
update_data_resume(f, step) ==
    IF step.k = "await" THEN step
    ELSE IF step.k = "return"
         THEN IF FilterRaises(step.value[1].transactions, f.now_utc - SevenDays)
              THEN ExceptClauses(f, "TypeError", None)
              ELSE Return(Snapshot(step.value[1], f.now_utc, clock))
    ELSE ExceptClauses(f, step.exc, step.retry_after)

\* ------------------------------------------------------ hosting framework
\* The update coordinator of the hosting application starts a refresh only
\* when none is in progress.
SingleFlightOff == TRUE
SingleFlight == invocations = 0

\* coordinator.data after _async_update_data raised: the assignment
\* `self.data = await self._async_update_data()` did not happen.
DataAfterFailure(d) == d

\* async_setup_entry after async_config_entry_first_refresh: the lines that
\* store the coordinator and forward the sensor platform run only when the
\* first refresh did not raise.
SetupStoresAlways(ok) == TRUE
SetupStores(ok) == ok

\* The entry after a failed first refresh: ConfigEntryAuthFailed is a set-up
\* error (and starts re-authentication), everything else is retried later.
EntryAfterFailedSetup(exc) ==
    IF exc = "ConfigEntryAuthFailed" THEN "setup_error" ELSE "setup_retry"

\* An invocation starts: shared by the first refresh and the later ones.
StartUpdate ==
    /\ invocations' = invocations + 1
    /\ last' = NoLast
    /\ run' = StartFrame
    /\ requests_made' = 0

\* The invocation ends (step.k is "return" or "raise").  cexc is the
\* exception that ended the try block ("" when it ran to its end), h the
\* Retry-After header of the last response, req what the latest request
\* ended in.
Finish(step, cexc, ra, h, caught_at, slept, req, attempts) ==
    LET ok == step.k = "return"
        first == entryState = "setup_in_progress"
    IN  /\ run' = IdleFrame
        /\ invocations' = invocations - 1
        /\ last' = [outcome |-> IF ok THEN "success" ELSE step.exc,
                    exc |-> cexc, retry_after |-> ra, header |-> h,
                    started_at |-> run.now_utc, caught_at |-> caught_at,
                    ended_at |-> clock, slept |-> slept,
                    req_exc |-> req.exc, req_retry_after |-> req.retry_after,
                    attempts |-> attempts]
        /\ data' = IF ok THEN step.value ELSE DataAfterFailure(data)
        /\ committed' = IF ok /\ cexc = "" THEN step.value ELSE committed
        /\ entryState' = IF ~first THEN entryState
                         ELSE IF ok THEN "loaded" ELSE EntryAfterFailedSetup(step.exc)
        /\ hassData' = IF first THEN SetupStores(ok) ELSE hassData
        /\ sensors' = IF first THEN SetupStores(ok) ELSE sensors

\* A step of the invocation after the response resp: it goes on suspended,
\* or it ends.
Advance(inner, made, resp) ==
    LET outer == update_data_resume(run, inner)
        cexc == IF inner.k = "raise" THEN inner.exc
                ELSE IF outer.k = "raise" THEN outer.exc ELSE ""
        r == request_json(resp)
    IN  /\ requests_made' = made
        /\ IF outer.k = "await"
           THEN /\ run' = [outer.frame EXCEPT !.header = IF outer.frame.pc = "sleeping"
                                                        THEN resp.retryAfter ELSE NoHeader,
                                              !.req_exc = r.exc,
                                              !.req_retry_after = r.retry_after,
                                              !.attempts = run.attempts + 1]
                /\ UNCHANGED <<entryState, hassData, sensors, data, invocations, last, committed>>
           ELSE Finish(outer, cexc, inner.retry_after, resp.retryAfter, clock, FALSE,
                       r, run.attempts + 1)

\* ------------------------------------------------------------------ actions
\* async_setup_entry: a new client and a new coordinator, then the first refresh.
SetupEntry ==
    /\ entryState \in {"not_loaded", "setup_retry"}
    /\ invocations = 0
    /\ StartUpdate
    /\ entryState' = "setup_in_progress"
    /\ data' = None
    /\ UNCHANGED <<clock, hassData, sensors, trigger, committed, walk, call, entryData, flow>>

\* A scheduled tick or a manual trigger of the loaded entry.
TriggerRefresh ==
    /\ entryState = "loaded"
    /\ IF SingleFlight
       THEN /\ StartUpdate
            /\ trigger' = "started"
       ELSE /\ trigger' = "dropped"
            /\ UNCHANGED <<invocations, run, requests_made, last>>
    /\ UNCHANGED <<clock, entryState, hassData, sensors, data, committed, walk, call, entryData, flow>>

\* The response to a request of _fetch_accounts arrives.
AccountsResponse ==
    /\ run.pc = "accounts"
    /\ \E resp \in AccountsResponses :
         LET r == request_json(resp)
             made == IF r.counted THEN requests_made + 1 ELSE requests_made
         IN  Advance(fetch_accounts_resume(run, r, made), made, resp)
    /\ UNCHANGED <<clock, trigger, walk, call, entryData, flow>>

\* The response to a request of _fetch_records_for_account arrives.
RecordsResponse ==
    /\ run.pc = "records"
    /\ \E resp \in RecordsResponses :
         LET r == request_json(resp)
             made == IF r.counted THEN requests_made + 1 ELSE requests_made
         IN  Advance(fetch_records_resume(run, r, made), made, resp)
    /\ UNCHANGED <<clock, trigger, walk, call, entryData, flow>>

\* asyncio.sleep(err.retry_after) is over: raise UpdateFailed.
WakeUp ==
    /\ run.pc = "sleeping"
    /\ clock >= run.wake_at
    /\ Finish(Raise("UpdateFailed", None), run.exc, run.retry_after, run.header,
              run.caught_at, TRUE,
              [exc |-> run.req_exc, retry_after |-> run.req_retry_after], run.attempts)
    /\ UNCHANGED <<clock, requests_made, trigger, walk, call, entryData, flow>>

\* async_unload_entry: the platform is unloaded, the coordinator is dropped
\* from hass.data with its data, and a refresh in flight is cancelled.
UnloadEntry ==
    /\ entryState = "loaded"
    /\ entryState' = "not_loaded"
    /\ hassData' = FALSE
    /\ sensors' = FALSE
    /\ run' = IdleFrame
    /\ invocations' = 0
    /\ last' = IF invocations > 0
               THEN [NoLast EXCEPT !.outcome = "cancelled", !.exc = run.exc,
                                   !.started_at = run.now_utc, !.ended_at = clock]
               ELSE last
    /\ data' = None
    /\ committed' = None
    /\ UNCHANGED <<clock, requests_made, trigger, walk, call, entryData, flow>>

\* Time passes.
AdvanceClock ==
    /\ clock < MaxClock
    /\ clock' = clock + 1
    /\ UNCHANGED <<entryState, hassData, sensors, data, invocations, run, requests_made,
                   trigger, last, committed, walk, call, entryData, flow>>

Next ==
    \/ SetupEntry
    \/ TriggerRefresh
    \/ AccountsResponse
    \/ RecordsResponse
    \/ WakeUp
    \/ UnloadEntry
    \/ AdvanceClock

Spec == Init /\ [][Next]_vars

\* ------------------------------------------------- the client on its own
cycleVars == <<clock, entryState, hassData, sensors, data, invocations, run, requests_made,
               trigger, last, committed>>

\* The pages and responses the upstream answers a call of the client with.
WalkNextOffsets ==
    { [k |-> "absent", v |-> 0], [k |-> "null", v |-> 0] }
    \cup { [k |-> "int", v |-> n] : n \in {0, 1, 2} }
WalkItemLists(op) ==
    IF op = "records" THEN { <<>>, <<RecordWeekOld>>, <<RecordNaive, RecordWeekOld>> }
    ELSE { <<>>, <<AccountA>>, <<AccountBArchived, AccountA>> }
WalkPages(op) ==
    { p \in { Page(TRUE, items, n) : items \in WalkItemLists(op), n \in WalkNextOffsets }
            \cup { Page(FALSE, <<>>, n) : n \in WalkNextOffsets } :
        p.next.k = "int" => Len(walk.log) + 1 < MaxWalkRequests }
WalkResponses(op) ==
    FailureResponses
    \cup ObjectResponses(WalkPages(op))
    \cup { Response("response", 300, NoHeader, "object", p) :
             p \in { q \in WalkPages(op) : ~q.hasItems } }

\* validate_token, _fetch_accounts or _fetch_records_for_account is called
\* and issues its first request, at offset 0.
ClientCall ==
    /\ walk.status # "running"
    /\ \E op \in {"validate", "accounts", "records"} :
         walk' = [op |-> op, status |-> "running", offset |-> 0, items |-> <<>>, log |-> <<>>]
    /\ UNCHANGED <<cycleVars, call, entryData, flow>>

\* The response to the call's request arrives: the call raises, returns, or
\* issues its next request.
ClientResponse ==
    /\ walk.status = "running"
    /\ \E resp \in WalkResponses(walk.op) :
         LET r == request_json(resp)
             log == Append(walk.log, [offset |-> walk.offset, resp |-> resp, out |-> r])
         IN  IF r.exc # "" THEN walk' = [walk EXCEPT !.status = "raised", !.log = log]
             ELSE IF walk.op = "validate"
                  THEN walk' = [walk EXCEPT !.status = "returned", !.log = log]
             ELSE LET turn == IF walk.op = "accounts"
                              THEN fetch_accounts_loop(walk.offset, walk.items, r.page)
                              ELSE fetch_records_loop(walk.offset, walk.items, r.page)
                  IN  walk' = [walk EXCEPT
                                 !.status = IF turn.done THEN "returned" ELSE "running",
                                 !.offset = turn.offset, !.items = turn.items, !.log = log]
    /\ UNCHANGED <<cycleVars, call, entryData, flow>>

ClientNext ==
    \/ ClientCall
    \/ ClientResponse

SpecClient == Init /\ [][ClientNext]_vars

\* ------------------------------------- the fetch on given upstream data
\* The accounts _fetch_accounts may return.
CallAccountShapes ==
    { AccountA, AccountBArchived, AccountNoId,
      Account(TRUE, "", "false"), Account(TRUE, "C", "absent"),
      Account(TRUE, "D", "null"), Account(TRUE, "E", "nonempty_string") }
\* The records the walks of the records collection may return.
RecordPln == Record(RecDate("aware", 0), "expense", Amount(TRUE, "PLN", "num", -4250))
RecordPlnIncome == Record(RecDate("aware", 0), "income", Amount(TRUE, "PLN", "num", 500))
RecordUsdWeekOld ==
    Record(RecDate("aware", 0 - SevenDays), "expense", Amount(TRUE, "USD", "num", -1000))
RecordOlder ==
    Record(RecDate("aware", 0 - SevenDays - 1), "expense", Amount(FALSE, "", "absent", 0))
RecordNoDate == Record(RecDate("missing", 0), "expense", Amount(TRUE, "PLN", "num", 300))
RecordBadDate == Record(RecDate("unparseable", 0), "expense", Amount(TRUE, "PLN", "nonnum", 0))
RecordNoValue == Record(RecDate("aware", 0), "transfer", Amount(TRUE, "PLN", "absent", 0))
RecordBoolValue == Record(RecDate("aware", 0), "expense", Amount(TRUE, "PLN", "bool", 1))
RecordNumberDate == Record(RecDate("nonstring", 5), "expense", Amount(TRUE, "PLN", "num", 100))
RecordNullDate == Record(RecDate("null", 0), "expense", Amount(TRUE, "PLN", "num", 100))
CallRecordShapes ==
    { RecordPln, RecordPlnIncome, RecordUsdWeekOld, RecordOlder, RecordNoDate, RecordBadDate,
      RecordNoValue, RecordBoolValue, RecordNaive, RecordNumberDate, RecordNullDate }

callVars == <<clock, entryState, hassData, sensors, data, invocations, run, requests_made,
              trigger, last, committed, walk, entryData, flow>>

\* The aggregator from the return of _fetch_accounts on, every walk of the
\* records collection returning no record: one request per active account.
ComputeActiveAccounts ==
    /\ call = NoCall
    /\ \E accounts \in SeqUpTo(CallAccountShapes, MaxCallLen) :
         LET ids == ActiveAccountIds(accounts)
             f == [IdleFrame EXCEPT !.accounts = accounts, !.active_account_ids = ids]
         IN  call' = [op |-> "accounts", accounts |-> accounts,
                      result |-> AggregatorReturn(f, <<>>, 1 + Len(ids))]
    /\ UNCHANGED callVars

\* A refresh started at instant now, from the point on where the walks of
\* the records collection have returned txs: the aggregator sorts and
\* returns (result), _async_update_data filters, sums and returns (out).
ComputeRefresh ==
    /\ call = NoCall
    /\ \E txs \in SeqUpTo(CallRecordShapes, MaxCallLen), now \in 0..MaxClock :
         LET f == [IdleFrame EXCEPT !.now_utc = now, !.active_account_ids = <<"A">>]
             inner == AggregatorReturn(f, txs, 2)
         IN  call' = [op |-> "refresh", fetched |-> txs, now |-> now, result |-> inner,
                      out |-> update_data_resume(f, inner)]
    /\ UNCHANGED callVars

\* The spent-in-PLN sensor is read after the refresh returned its Snapshot.
ReadSpentPln ==
    /\ call.op = "refresh"
    /\ call.out.k = "return"
    /\ call' = [op |-> "spent_pln", fetched |-> call.fetched, now |-> call.now,
                 snapshot |-> call.out.value[1],
                 native_value |-> SpentPlnNativeValue(call.out.value[1])]
    /\ UNCHANGED callVars

ComputeNext ==
    \/ ComputeActiveAccounts
    \/ ComputeRefresh
    \/ ReadSpentPln

SpecCompute == Init /\ [][ComputeNext]_vars

\* ------------------------------------------------------- config_flow.py
\* What the user types into the token field: a text (core) with or without
\* whitespace around it.
TokenInput(core, padded) == [core |-> core, padded |-> padded]
TokenInputs ==
    { TokenInput("", FALSE), TokenInput("", TRUE), TokenInput("t1", FALSE),
      TokenInput("t1", TRUE), TokenInput("t2", FALSE) }
\* user_input[CONF_TOKEN].strip()
Strip(input) == input.core

\* The responses validate_token's request may get.
FlowResponses ==
    FailureResponses
    \cup ObjectResponses({ Page(TRUE, <<AccountA>>, [k |-> "null", v |-> 0]), NoPage })
    \cup { Response("response", 300, NoHeader, "object", NoPage) }

flowFrame == <<clock, entryState, hassData, sensors, data, invocations, run, requests_made,
               trigger, last, committed, walk, call>>

\* The form is shown again with an error.
ShowForm(step, sub, errors) ==
    [step |-> step, token |-> "", submit |-> [sub EXCEPT !.errors = errors]]
\* The flow ends: an entry is created, it aborts, or the handler raised.
CloseFlow(sub, result) == [NoFlow EXCEPT !.submit = [sub EXCEPT !.result = result]]

\* The except clauses around validate_token, in their order; "" when it
\* returned, "raise" when no clause matches.
FlowErrors(exc) ==
    IF exc = "" THEN ""
    ELSE IF IsInstance(exc, "BudgetBakersAuthError") THEN "invalid_auth"
    ELSE IF IsInstance(exc, "BudgetBakersApiError") THEN "cannot_connect"
    ELSE "raise"

\* async_step_user(None): the form is shown.
FlowUserInit ==
    /\ flow.step = "none"
    /\ flow' = [NoFlow EXCEPT !.step = "user"]
    /\ UNCHANGED <<flowFrame, entryData>>

\* async_step_user(user_input) up to `await api_client.validate_token()`.
FlowUserSubmit ==
    /\ flow.step = "user"
    /\ \E input \in TokenInputs :
         LET sub == [NoSubmit EXCEPT !.kind = "user", !.input = input,
                                     !.before = entryData, !.after = entryData]
             token == Strip(input)
         IN  flow' = IF entryData # None THEN CloseFlow(sub, "abort:already_configured")
                     ELSE IF token = "" THEN ShowForm("user", sub, "invalid_auth")
                     ELSE [step |-> "user_validating", token |-> token, submit |-> sub]
    /\ UNCHANGED <<flowFrame, entryData>>

\* async_step_user resumed with the outcome of validate_token.
FlowUserValidated ==
    /\ flow.step = "user_validating"
    /\ \E resp \in FlowResponses :
         LET r == request_json(resp)
             errors == FlowErrors(r.exc)
             sub == [flow.submit EXCEPT !.requests = 1, !.resp = resp, !.exc = r.exc]
         IN  IF errors = "raise"
             THEN flow' = CloseFlow(sub, "raised") /\ UNCHANGED entryData
             ELSE IF errors # ""
             THEN flow' = ShowForm("user", sub, errors) /\ UNCHANGED entryData
             ELSE /\ entryData' = Some(flow.token)
                  /\ flow' = CloseFlow([sub EXCEPT !.after = Some(flow.token)], "create_entry")
    /\ UNCHANGED flowFrame

\* async_step_reauth: async_step_reauth_confirm(None) shows the form.
FlowReauthInit ==
    /\ flow.step = "none"
    /\ entryData # None
    /\ flow' = [NoFlow EXCEPT !.step = "reauth_confirm"]
    /\ UNCHANGED <<flowFrame, entryData>>

\* async_step_reauth_confirm(user_input) up to `await api_client.validate_token()`.
FlowReauthSubmit ==
    /\ flow.step = "reauth_confirm"
    /\ \E input \in TokenInputs :
         LET sub == [NoSubmit EXCEPT !.kind = "reauth", !.input = input,
                                     !.before = entryData, !.after = entryData]
             token == Strip(input)
         IN  flow' = IF entryData = None THEN CloseFlow(sub, "abort:reauth_unsuccessful")
                     ELSE IF token = "" THEN ShowForm("reauth_confirm", sub, "invalid_auth")
                     ELSE [step |-> "reauth_validating", token |-> token, submit |-> sub]
    /\ UNCHANGED <<flowFrame, entryData>>

\* async_step_reauth_confirm resumed with the outcome of validate_token:
\* on success the entry's data is replaced and the entry reloaded.
FlowReauthValidated ==
    /\ flow.step = "reauth_validating"
    /\ \E resp \in FlowResponses :
         LET r == request_json(resp)
             errors == FlowErrors(r.exc)
             sub == [flow.submit EXCEPT !.requests = 1, !.resp = resp, !.exc = r.exc]
         IN  IF errors = "raise"
             THEN flow' = CloseFlow(sub, "raised") /\ UNCHANGED entryData
             ELSE IF errors # ""
             THEN flow' = ShowForm("reauth_confirm", sub, errors) /\ UNCHANGED entryData
             ELSE /\ entryData' = Some(flow.token)
                  /\ flow' = CloseFlow([sub EXCEPT !.after = Some(flow.token), !.reloaded = TRUE],
                                       "abort:reauth_successful")
    /\ UNCHANGED flowFrame

\* The user removes the config entry while no validation is awaited.
RemoveEntry ==
    /\ entryData # None
    /\ flow.step \notin {"user_validating", "reauth_validating"}
    /\ entryData' = None
    /\ UNCHANGED <<flowFrame, flow>>

FlowNext ==
    \/ FlowUserInit
    \/ FlowUserSubmit
    \/ FlowUserValidated
    \/ FlowReauthInit
    \/ FlowReauthSubmit
    \/ FlowReauthValidated
    \/ RemoveEntry

SpecFlow == Init /\ [][FlowNext]_vars

\* ------------------------------------------------------------------ claims
\* The fields of coordinator.data other than last_error.
DataFields(d) ==
    IF d = None THEN <<>>
    ELSE <<d[1].transactions, d[1].total_transactions, d[1].transaction_sum_30_days,
           d[1].account_count, d[1].active_account_ids, d[1].requests_made, d[1].updated_at>>
ClientErrors == {"BudgetBakersAuthError", "BudgetBakersRateLimitError", "BudgetBakersApiError"}

\* C1: once a refresh of the loaded entry has committed a Snapshot, a step
\* changes a field of the Snapshot other than last_error only when it ends a
\* refresh whose try block ran to its end without an exception; a refresh
\* ending in AuthError, RateLimitError or ApiError leaves them as they were.
C1_FailedRefreshKeepsSnapshot ==
    [][ (entryState = "loaded" /\ entryState' = "loaded" /\ data # None)
        => /\ DataFields(data') # DataFields(data)
                => last'.outcome = "success" /\ last'.exc = "" /\ last # last'
           /\ (last # last' /\ last'.exc \in ClientErrors)
                => DataFields(data') = DataFields(data) ]_vars
\* A refresh after the first one failed on a records request, with an
\* older Snapshot in place.
C1_Witness ==
    /\ entryState = "loaded" /\ data # None
    /\ last.outcome = "UpdateFailed" /\ last.exc = "BudgetBakersApiError"
    /\ requests_made >= 2
    /\ data[1].updated_at < last.started_at

\* C2: at most one invocation of _async_update_data is in progress, and a
\* tick or trigger that arrives while one is (its sleep on a rate-limit
\* backoff included) is dropped: it changes nothing of the invocation.
C2_SingleFlight ==
    [][ /\ invocations' <= 1
        /\ (invocations >= 1 /\ trigger' # trigger)
             => /\ trigger' = "dropped"
                /\ run' = run /\ requests_made' = requests_made /\ invocations' = invocations
      ]_vars
\* A trigger was dropped while the refresh sleeps on its backoff.
C2_Witness == trigger = "dropped" /\ run.pc = "sleeping" /\ invocations = 1

\* A returned dict is whole: its counts match its lists, every active
\* account had its request after the accounts request, and its stamp is no
\* later than now.
Consistent(snap) ==
    /\ snap.total_transactions = Len(snap.transactions)
    /\ snap.account_count = Len(snap.active_account_ids)
    /\ snap.requests_made >= 1 + snap.account_count
    /\ snap.updated_at <= clock
    /\ snap.last_error = None

\* C3: coordinator.data is None or exactly the dict one invocation built
\* after its try block ran to its end, and that dict is whole; this holds
\* while a refresh is in flight, after one failed midway and after a
\* teardown during one.
C3_NoPartialSnapshot ==
    data = None \/ (data = committed /\ Consistent(data[1]))
\* A later refresh is midway through its records requests, holding results
\* that differ from the committed Snapshot.
C3_Witness ==
    /\ data # None /\ run.pc = "records"
    /\ run.now_utc > data[1].updated_at
    /\ run.active_account_ids # data[1].active_account_ids

\* C4: the coordinator is stored in hass.data and the sensor platform is set
\* up only after a first refresh succeeded; when the first refresh fails,
\* set-up fails with no Snapshot, no stored coordinator and no sensors.
C4_FirstRefreshGatesSetup ==
    /\ (hassData \/ sensors) => (entryState = "loaded" /\ data # None)
    /\ entryState \in {"setup_error", "setup_retry"}
         => (data = None /\ ~hassData /\ ~sensors /\ last.outcome \notin {"none", "success"})
    /\ entryState = "setup_in_progress" => (data = None /\ ~hassData /\ ~sensors)
\* The first refresh got a 401.
C4_Witness ==
    /\ entryState = "setup_error" /\ last.exc = "BudgetBakersAuthError"
    /\ data = None /\ ~hassData /\ ~sensors

\* C5: a refresh that ran to its end signals ConfigEntryAuthFailed exactly
\* when the aggregator raised AuthError, and UpdateFailed whenever the
\* aggregator raised RateLimitError or another ApiError.
C5_AuthDistinctFromTransient ==
    last.outcome \notin {"none", "cancelled"}
    => /\ last.exc = "BudgetBakersAuthError" <=> last.outcome = "ConfigEntryAuthFailed"
       /\ last.exc \in {"BudgetBakersRateLimitError", "BudgetBakersApiError"}
            => last.outcome = "UpdateFailed"
\* A refresh of the loaded entry got a 401.
C5_Witness ==
    /\ entryState = "loaded" /\ last.outcome = "ConfigEntryAuthFailed"
    /\ last.exc = "BudgetBakersAuthError"

\* C6 (as claimed): after a refresh of the loaded entry failed with
\* RateLimitError or ApiError, the Snapshot's last_error is not None.
C6_LastErrorPopulated ==
    (entryState = "loaded" /\ last.outcome = "UpdateFailed"
        /\ last.exc \in {"BudgetBakersRateLimitError", "BudgetBakersApiError"})
    => (data # None /\ data[1].last_error # None)

\* The exceptions a request ends in.
RequestErrors == ClientErrors \cup {"ValueError"}
\* C7 (as claimed): a refresh all of whose requests succeeded ends in
\* success, with a Snapshot whose last_error is None and whose updated_at is
\* the instant the refresh started, and the cycle is idle again (read
\* before the entry is unloaded).
C7_SuccessfulRequestsCommit ==
    (entryState # "not_loaded" /\ last.outcome \notin {"none", "cancelled"}
        /\ last.exc \notin RequestErrors)
    => /\ last.outcome = "success"
       /\ data # None /\ data[1].last_error = None /\ data[1].updated_at = last.started_at
       /\ run.pc = "idle" /\ invocations = 0

\* C9: a refresh that ended on a RateLimitError whose retry_after n is
\* positive slept from the instant the error was caught to n seconds later
\* before UpdateFailed was signalled, and nothing is signalled while it
\* sleeps; a 429 whose Retry-After is decimal digits gives that number, one
\* whose header is absent, empty or holds a non-digit gives None; with
\* retry_after None or 0 UpdateFailed is signalled at once.
C9_BackoffBeforeFailure ==
    /\ run.pc = "sleeping"
         => /\ invocations = 1 /\ last.outcome = "none"
            /\ run.retry_after # None /\ run.retry_after[1] > 0
            /\ run.wake_at = run.caught_at + run.retry_after[1]
    /\ (last.exc = "BudgetBakersRateLimitError" /\ last.outcome # "cancelled")
         => /\ last.outcome = "UpdateFailed"
            /\ last.header.k = "decimal" => last.retry_after = Some(last.header.v)
            /\ last.header.k \in {"absent", "empty", "nondigit"} => last.retry_after = None
            /\ IF last.retry_after # None /\ last.retry_after[1] > 0
               THEN last.slept /\ last.ended_at >= last.caught_at + last.retry_after[1]
               ELSE ~last.slept /\ last.ended_at = last.caught_at
\* A refresh slept one second on `Retry-After: 1`, then failed.
C9_Witness ==
    /\ last.outcome = "UpdateFailed" /\ last.slept
    /\ last.header = [k |-> "decimal", v |-> 1] /\ last.retry_after = Some(1)
    /\ last.ended_at >= last.caught_at + 1

\* What the error taxonomy names for a response.
Is2xx(resp) == resp.status >= 200 /\ resp.status <= 299
TaxonomyOutcome(resp) ==
    IF resp.net # "response" THEN "BudgetBakersApiError"
    ELSE IF resp.status = 401 THEN "BudgetBakersAuthError"
    ELSE IF resp.status = 429 THEN "BudgetBakersRateLimitError"
    ELSE IF ~Is2xx(resp) THEN "BudgetBakersApiError"
    ELSE IF resp.bodyKind # "object" THEN "BudgetBakersApiError"
    ELSE ""
\* C8 (as claimed): every request of a call ends in the outcome the taxonomy
\* names for its response (a payload only for a 2xx with a JSON-object
\* body), and a call makes no request after one that failed.
C8_TaxonomyAndNoRetry ==
    /\ \A i \in 1..Len(walk.log) : walk.log[i].out.exc = TaxonomyOutcome(walk.log[i].resp)
    /\ \A i \in 1..(Len(walk.log) - 1) : walk.log[i].out.exc = ""
    /\ (walk.log # <<>> /\ walk.log[Len(walk.log)].out.exc # "") => walk.status = "raised"

\* The items of the pages of a log, in request order.
RECURSIVE LogItems(_)
LogItems(log) ==
    IF log = <<>> THEN <<>>
    ELSE LogItems(SubSeq(log, 1, Len(log) - 1)) \o PageItems(log[Len(log)].resp.page)
\* A response that carries a nextOffset.
HasNext(e) == e.out.exc = "" /\ e.resp.page.next.k = "int"

\* C10: a walk of the accounts or of the records collection asks for offset
\* 0 first and then for the nextOffset of the response before; it goes on
\* after every response that carries a nextOffset and returns on the first
\* one whose nextOffset is absent or null, with the items of all its pages
\* in request order.
C10_PaginationWalk ==
    walk.op \in {"accounts", "records"}
    => /\ \A i \in 1..Len(walk.log) :
            /\ walk.log[i].offset = IF i = 1 THEN 0 ELSE walk.log[i - 1].resp.page.next.v
            /\ i < Len(walk.log) => HasNext(walk.log[i])
       /\ walk.status = "running"
            => /\ walk.log # <<>> => HasNext(walk.log[Len(walk.log)])
               /\ walk.offset = IF walk.log = <<>> THEN 0
                                ELSE walk.log[Len(walk.log)].resp.page.next.v
               /\ walk.items = LogItems(walk.log)
       /\ walk.status = "returned"
            => /\ walk.log # <<>>
               /\ walk.log[Len(walk.log)].out.exc = ""
               /\ walk.log[Len(walk.log)].resp.page.next.k \in {"absent", "null"}
               /\ walk.items = LogItems(walk.log)
\* The records walk returned after three pages, the first of which carried
\* nextOffset 0 and two records.
C10_Witness ==
    /\ walk.op = "records" /\ walk.status = "returned" /\ Len(walk.log) = 3
    /\ walk.log[1].resp.page.next = [k |-> "int", v |-> 0]
    /\ walk.log[3].resp.page.next.k = "null"
    /\ walk.items = <<RecordNaive, RecordWeekOld, RecordWeekOld>>

\* C11: an error a request of the fetch ends in reaches the refresh cycle as
\* it is, with its retry_after: no request is outstanding after one that
\* failed, the cycle sleeps only on the RateLimitError the request raised,
\* and the refresh ends on the request's own exception, never in success.
C11_ErrorsPropagateUnchanged ==
    /\ run.pc \in {"accounts", "records"} => run.req_exc = ""
    /\ run.pc = "sleeping"
         => /\ run.req_exc = "BudgetBakersRateLimitError"
            /\ run.exc = run.req_exc /\ run.retry_after = run.req_retry_after
    /\ (last.outcome \notin {"none", "cancelled"} /\ last.req_exc # "")
         => /\ last.exc = last.req_exc /\ last.retry_after = last.req_retry_after
            /\ last.outcome # "success"
\* A refresh got `429, Retry-After: 1` on a request after its first one.
C11_Witness ==
    /\ last.outcome = "UpdateFailed" /\ last.req_exc = "BudgetBakersRateLimitError"
    /\ last.req_retry_after = Some(1) /\ last.retry_after = Some(1)
    /\ last.attempts >= 2

\* C12 (as claimed): the counter is zero when a fetch starts and then equals
\* the number of requests of the fetch that got an outcome, whatever the
\* outcome; the requests_made of a committed Snapshot is that number.
C12_CounterCountsEveryAttempt ==
    /\ run.pc \in {"accounts", "records", "sleeping"} => requests_made = run.attempts
    /\ last.outcome \notin {"none", "cancelled"} => requests_made = last.attempts
    /\ (last.outcome = "success" /\ data # None) => data[1].requests_made = last.attempts

\* C14 (as claimed): the active_account_ids of a fetch and of a committed
\* Snapshot hold no id twice, whatever accounts the upstream returns.
NoDuplicates(ids) == \A i, j \in 1..Len(ids) : ids[i] = ids[j] => i = j
C14_NoDuplicateIds ==
    /\ NoDuplicates(run.active_account_ids)
    /\ data # None => NoDuplicates(data[1].active_account_ids)

\* C16: while a fetch is in flight exactly one of its requests has no
\* outcome yet; the requests issued so far are those of the accounts
\* collection first and then those of the active accounts one after the
\* other in the order of active_account_ids, none left out, and the one
\* outstanding is for the account the aggregator is at.
C16_SequentialRequests ==
    LET log == run.log
    IN  /\ run.pc \in {"accounts", "records"}
             => /\ Len(log) = run.attempts + 1
                /\ log[1].target = 0
                /\ \A i \in 1..(Len(log) - 1) :
                      log[i + 1].target \in {log[i].target, log[i].target + 1}
                /\ log[Len(log)].target = IF run.pc = "accounts" THEN 0 ELSE run.idx
                /\ run.idx <= Len(run.active_account_ids)
        /\ run.pc \in {"idle", "sleeping"} => Len(log) = run.attempts
\* The aggregator waits for the page of its second active account, after
\* one accounts page and one page of the first account.
C16_Witness ==
    /\ run.pc = "records" /\ run.idx = 2 /\ run.attempts = 2
    /\ run.log[1].target = 0 /\ run.log[2].target = 1 /\ run.log[3].target = 2

\* C17 (as claimed): every records request of a refresh is scoped to
\* [now - 30 days, now), now being one instant of the refresh, the same for
\* every account and page.
C17_ThirtyDayWindow ==
    \A i \in 1..Len(run.log) :
        run.log[i].target > 0
        => /\ run.log[i].end = run.api_now
           /\ run.log[i].end >= run.now_utc /\ run.log[i].end <= clock
           /\ run.log[i].start = run.log[i].end - ThirtyDays

\* The k-th smallest element of a set of indices.
Nth(I, k) == CHOOSE i \in I : Cardinality({ j \in I : j < i }) = k - 1
\* seq is the subsequence of all made of the elements at the indices I.
IsSubSeqAt(seq, all, I) ==
    /\ Len(seq) = Cardinality(I)
    /\ \A k \in 1..Len(seq) : seq[k] = all[Nth(I, k)]

\* C13: active_account_ids is the ids of the accounts whose archived is
\* absent or falsy and whose id is not empty, in the order of the accounts,
\* and account_count is its length.
C13_ActiveAccountIds ==
    call.op = "accounts"
    => LET accounts == call.accounts
           kept == { i \in 1..Len(accounts) :
                       /\ accounts[i].archived \in {"absent", "false", "null"}
                       /\ accounts[i].hasId /\ accounts[i].id # "" }
           result == call.result.value[1]
       IN  /\ call.result.k = "return"
           /\ IsSubSeqAt(result.active_account_ids, [i \in 1..Len(accounts) |-> accounts[i].id], kept)
           /\ result.account_count = Len(result.active_account_ids)
\* An archived account, one without the archived key and one with
\* archived false.
C13_Witness ==
    /\ call.op = "accounts"
    /\ call.accounts = <<AccountBArchived, Account(TRUE, "C", "absent"), AccountA>>
    /\ call.result.value[1].active_account_ids = <<"C", "A">>
    /\ call.result.value[1].account_count = 2

\* C15: the transactions of a WalletFetchResult are the fetched records
\* rearranged so that no record comes before one with a greater recordDate
\* key, and records with equal keys keep the order they were fetched in.
C15_SortedStablePermutation ==
    (call.op = "refresh" /\ call.result.k = "return")
    => LET in == call.fetched
           out == call.result.value[1].transactions
       IN  /\ Len(out) = Len(in)
           /\ \E p \in Permutations(1..Len(in)) :
                /\ \A i \in 1..Len(in) : out[i] = in[p[i]]
                /\ \A i, j \in 1..Len(in) :
                     i < j => /\ ~KeyLess(out[i].recordDate, out[j].recordDate)
                              /\ ~KeyLess(out[j].recordDate, out[i].recordDate) => p[i] < p[j]
\* Two records of the same instant fetched with an older one between them.
C15_Witness ==
    /\ call.op = "refresh" /\ call.result.k = "return"
    /\ call.fetched = <<RecordPlnIncome, RecordOlder, RecordPln>>
    /\ call.result.value[1].transactions = <<RecordPlnIncome, RecordPln, RecordOlder>>

\* C18: the transactions of a returned Snapshot are the fetched
\* transactions whose recordDate is a timestamp at or after now - 7 days, in
\* their order; total_transactions is their number.
C18_SevenDayFilter ==
    (call.op = "refresh" /\ call.out.k = "return")
    => LET fetched == call.result.value[1].transactions
           snap == call.out.value[1]
           recent == { i \in 1..Len(fetched) :
                         /\ fetched[i].recordDate.k \in {"aware", "naive"}
                         /\ fetched[i].recordDate.t >= call.now - SevenDays }
       IN  /\ IsSubSeqAt(snap.transactions, fetched, recent)
           /\ snap.total_transactions = Len(snap.transactions)
           /\ snap.updated_at = call.now
\* A record dated exactly now - 7 days, one without a parseable date and a
\* recent one.
C18_Witness ==
    /\ call.op = "refresh" /\ call.out.k = "return" /\ call.now = 0
    /\ call.fetched = <<RecordUsdWeekOld, RecordBadDate, RecordPln>>
    /\ call.out.value[1].transactions = <<RecordPln, RecordUsdWeekOld>>

\* The sum of abs(value) over the records at the indices I whose currency
\* is PLN and whose value is a JSON number.
RECURSIVE SumOver(_, _)
SumOver(I, txs) ==
    IF I = {} THEN 0
    ELSE LET i == CHOOSE x \in I : TRUE
             b == txs[i].baseAmount
         IN  (IF b.present /\ b.currencyCode = "PLN" /\ b.vk = "num" THEN Abs(b.value) ELSE 0)
             + SumOver(I \ {i}, txs)
\* C19 (as claimed): transaction_sum_30_days is the sum of abs(value) over
\* the fetched transactions in PLN with a numeric value, whatever their order.
C19_SumOfPlnAmounts ==
    (call.op = "refresh" /\ call.out.k = "return")
    => call.out.value[1].transaction_sum_30_days = SumOver(1..Len(call.fetched), call.fetched)

\* C20 (as claimed): a submission changes the stored token only when
\* validate_token returned for the stripped input, which is then what is
\* stored (and the entry is reloaded on re-authentication); an empty token
\* shows invalid_auth without a request, a 401 shows invalid_auth, every
\* other failure of the request shows cannot_connect, and a rejected
\* submission leaves the stored token as it was.
C20_StoredOnlyAfterValidation ==
    LET sub == flow.submit
        answered == sub.kind # "none" /\ sub.requests = 1
                      /\ flow.step \notin {"user_validating", "reauth_validating"}
    IN  /\ sub.after # sub.before
             => /\ sub.requests = 1 /\ sub.exc = ""
                /\ sub.after = Some(Strip(sub.input)) /\ Strip(sub.input) # ""
                /\ sub.kind = "reauth" => sub.reloaded
        /\ (sub.kind # "none" /\ sub.result \notin {"abort:already_configured",
                                                      "abort:reauth_unsuccessful"}
               /\ Strip(sub.input) = "")
             => sub.errors = "invalid_auth" /\ sub.requests = 0
        /\ (answered /\ TaxonomyOutcome(sub.resp) = "BudgetBakersAuthError")
             => sub.errors = "invalid_auth" /\ sub.after = sub.before
        /\ (answered /\ TaxonomyOutcome(sub.resp) \in {"BudgetBakersRateLimitError",
                                                        "BudgetBakersApiError"})
             => sub.errors = "cannot_connect" /\ sub.after = sub.before

\* The sum of abs(value) over the records at the indices I that are
\* expenses in PLN with a JSON number as value.
RECURSIVE SpentOver(_, _)
SpentOver(I, txs) ==
    IF I = {} THEN 0
    ELSE LET i == CHOOSE x \in I : TRUE
             b == txs[i].baseAmount
         IN  (IF txs[i].recordType = "expense" /\ b.present /\ b.currencyCode = "PLN"
                   /\ b.vk = "num"
              THEN Abs(b.value) ELSE 0)
             + SpentOver(I \ {i}, txs)
\* C21 (as claimed): the spent-in-PLN value read from a Snapshot is the sum
\* of abs(value) over the Snapshot's transactions that are expenses in PLN
\* with a numeric value; other currencies and record types add nothing.
C21_SpentPlnOfSnapshot ==
    call.op = "spent_pln"
    => call.native_value
         = SpentOver(1..Len(call.snapshot.transactions), call.snapshot.transactions)

\* C22 (as claimed): _is_record_on_or_after gives true or false for every
\* fetched record, so a refresh whose fetch returned a result returns its
\* Snapshot.
C22_FilterIsTotal ==
    (call.op = "refresh" /\ call.result.k = "return")
    => /\ \A i \in 1..Len(call.fetched) :
            is_record_on_or_after(call.fetched[i], call.now - SevenDays) \in {"true", "false"}
       /\ call.out.k = "return"

====
